---- MODULE Spec2Model ----
(***************************************************************************)
(* Time-fold cross-validation iterators of code/modeling/time_val.py.      *)
(*                                                                         *)
(* The file holds both sides of an unresolved merge: "Design A" is the     *)
(* HEAD side (test boundary walking backward, fold cap, resampling) and    *)
(* "Design B" the master side (split point walking forward).  Each side    *)
(* is modelled as the class it would be with the other side removed.       *)
(*                                                                         *)
(* Time is counted in ticks, TicksPerDay ticks to a calendar day; a        *)
(* datetime is the number of ticks since midnight of January 1st of        *)
(* MinYear.                                                                *)
(* Index arrays are sequences of row numbers (1-based).                    *)
(*                                                                         *)
(* The two scripts, code/modeling/run_model.py (the model runner) and      *)
(* code/modeling/create_inputs.py (the input builder), are modelled by the *)
(* files they write: one invocation is one step, with the place where the  *)
(* environment makes it raise as an input.  A text file is the sequence of *)
(* its lines.                                                              *)
(***************************************************************************)
EXTENDS Integers, Sequences, FiniteSets, TLC

VARIABLES
    cls,                      \* which class and design the iterator is
    dates,                    \* df['date_fire'] (A) / self.dates (B)
    fire_bool,                \* df['fire_bool']
    step_size,                \* self.step_size, in ticks
    max_folds,                \* self.max_folds (A)
    test_date,                \* self.test_date (A)
    days_back,                \* self.days_back (Stratified A)
    cutoff_train_fire_pct,    \* self.cutoff_train_fire_pct, in percent
    resample_train_fire_pct,  \* self.resample_train_fire_pct, in percent
    resample_method,          \* self.resample_method
    init_split_point,         \* self.init_split_point (B)
    split_point,              \* self.split_point (B)
    test_indices,             \* self.test_indices (B)
    n_folds,                  \* self.n_folds
    result,                   \* outcome of the last call
    train_arg,                \* the train_indices handed to a resampling call
    calls,                    \* number of calls made so far
    returned,                 \* number of folds handed back so far
    log_files,                \* ./modeling/logs/<model_name>.txt, by name
    run,                      \* the last invocation of run_model.py
    invocations,              \* the invocations of run_model.py so far
    now,                      \* time.time(), in seconds
    input_df_pkl,             \* ./input_df.pkl
    build                     \* the last invocation of create_inputs.py

vars == <<cls, dates, fire_bool, step_size, max_folds, test_date, days_back,
          cutoff_train_fire_pct, resample_train_fire_pct, resample_method,
          init_split_point, split_point, test_indices, n_folds, result,
          train_arg, calls,
          returned, log_files, run, invocations, now, input_df_pkl, build>>

scriptVars == <<log_files, run, invocations, now, input_df_pkl, build>>
foldVars == <<cls, dates, fire_bool, step_size, max_folds, test_date, days_back,
              cutoff_train_fire_pct, resample_train_fire_pct, resample_method,
              init_split_point, split_point, test_indices, n_folds, result,
              train_arg, calls, returned>>

----------------------------------------------------------------------------
(* Bounds of the model.                                                    *)

TicksPerDay == 2
MaxRows == 2
MaxFolds == 1
MaxDaysBack == 2
MaxCalls == 3
MaxTrain == 3
MaxRuns == 2

----------------------------------------------------------------------------
(* datetime / timedelta arithmetic.                                        *)

MinYear == 2012
Years == MinYear .. (MinYear + 3)

IsLeap(y) == (y % 4 = 0) /\ ((y % 100 # 0) \/ (y % 400 = 0))

DaysInYear(y) == IF IsLeap(y) THEN 366 ELSE 365

DaysInMonth(y, m) ==
    IF m = 2 THEN (IF IsLeap(y) THEN 29 ELSE 28)
    ELSE IF m \in {4, 6, 9, 11} THEN 30 ELSE 31

RECURSIVE DaysBeforeYear(_)
DaysBeforeYear(y) ==
    IF y <= MinYear THEN 0 ELSE DaysBeforeYear(y - 1) + DaysInYear(y - 1)

DaysBeforeMonthCommon == <<0, 31, 59, 90, 120, 151, 181, 212, 243, 273, 304, 334>>
DaysBeforeMonth(y, m) ==
    DaysBeforeMonthCommon[m] + (IF m > 2 /\ IsLeap(y) THEN 1 ELSE 0)

\* datetime(y, m, d, ...) raises ValueError for a day the month does not have
ValidDate(y, m, d) == m \in 1..12 /\ d >= 1 /\ d <= DaysInMonth(y, m)

Ordinal(y, m, d) == DaysBeforeYear(y) + DaysBeforeMonth(y, m) + (d - 1)

\* datetime(y, m, d) plus a time of day of tod ticks
Tick(y, m, d, tod) == Ordinal(y, m, d) * TicksPerDay + tod

Day == TicksPerDay                      \* timedelta(days=1)
DayOf(t) == t \div TicksPerDay          \* day number of a datetime
TimeOf(t) == t % TicksPerDay            \* its time of day
Midnight(t) == DayOf(t) * TicksPerDay   \* datetime(t.year, t.month, t.day, 0, 0, 0)

YearOf(t) ==
    CHOOSE y \in Years :
        DaysBeforeYear(y) <= DayOf(t) /\ DayOf(t) < DaysBeforeYear(y + 1)

MonthOf(t) ==
    LET y == YearOf(t)
        o == DayOf(t) - DaysBeforeYear(y)
    IN  CHOOSE m \in 1..12 :
            DaysBeforeMonth(y, m) <= o /\ o < DaysBeforeMonth(y, m) + DaysInMonth(y, m)

DayOfMonth(t) ==
    LET y == YearOf(t)
    IN  DayOf(t) - DaysBeforeYear(y) - DaysBeforeMonth(y, MonthOf(t)) + 1

\* datetime.min, scaled down to lie a few days before the tables' rows:
\* arithmetic that would go below it raises OverflowError
MinTick == Tick(MinYear, 2, 20, 0)

\* pd.date_range(a, b) at the default daily frequency: a, a + 1 day, ...
\* up to the last such instant that is not after b
DateRangeMin(a, b) == a
DateRangeMax(a, b) == a + ((b - a) \div Day) * Day

----------------------------------------------------------------------------
(* numpy index arrays.                                                     *)

Range(s) == {s[i] : i \in 1..Len(s)}

Min(S) == CHOOSE x \in S : \A y \in S : x <= y
Max(S) == CHOOSE x \in S : \A y \in S : x >= y

\* the elements of a set of integers in ascending order
RECURSIVE SortedSeq(_)
SortedSeq(S) ==
    IF S = {} THEN <<>> ELSE <<Min(S)>> \o SortedSeq(S \ {Min(S)})

\* np.where(mask)[0]: the row numbers at which the mask is true, ascending
Where(mask) == SortedSeq({i \in DOMAIN mask : mask[i]})

\* np.intersect1d / np.setdiff1d: sorted, duplicates removed
Intersect1d(a, b) == SortedSeq(Range(a) \cap Range(b))
Setdiff1d(a, b) == SortedSeq(Range(a) \ Range(b))

\* number of entries of an index array that are fires
CountFire(fb, idx) == Cardinality({k \in 1..Len(idx) : fb[idx[k]]})

----------------------------------------------------------------------------
(* Design A: BaseTimeFold (HEAD side).                                     *)

\* Series.mean() of fire_bool over idx compared with a percentage; the mean
\* of no rows is NaN and every comparison with NaN is false
MeanBelow(fb, idx, pct) ==
    Len(idx) > 0 /\ 100 * CountFire(fb, idx) < pct * Len(idx)
MeanAbove(fb, idx, pct) ==
    Len(idx) > 0 /\ 100 * CountFire(fb, idx) > pct * Len(idx)

\* np.where(self.df['fire_bool'] == True)[0]
FireIndices(fb) == SortedSeq({i \in 1..Len(fb) : fb[i]})

\* the sequences of length k over the set S / those without a repeat
Draws(S, k) == [1..k -> S]
DistinctDraws(S, k) == {s \in [1..k -> S] : \A i, j \in 1..k : i # j => s[i] # s[j]}

\* np.random.choice(pop, k, replace): every outcome it can have, a sample
\* [ok |-> TRUE, sample |-> ...] or a ValueError [ok |-> FALSE, ...].  An
\* empty population raises in the NumPy releases that reject it outright
\* and gives the empty sample (for k = 0) in those that accept it, so both
\* outcomes are possible there.
Sampled(s) == [ok |-> TRUE, sample |-> s]
ChoiceError == [ok |-> FALSE, sample |-> <<>>]

RandomChoice(pop, k, replace) ==
    IF Len(pop) = 0
    THEN (IF k = 0 THEN {ChoiceError, Sampled(<<>>)} ELSE {ChoiceError})
    ELSE IF replace THEN {Sampled(s) : s \in Draws(Range(pop), k)}
    ELSE IF k > Len(pop) THEN {ChoiceError}
    ELSE {Sampled(s) : s \in DistinctDraws(Range(pop), k)}

\* what a call came to: kind is "fold", "ok", "StopIteration" or the error
\* raised; boundary is the test boundary or split point the call ended on,
\* rounds the number of loop rounds it ran, raw_train the training set
\* before resampling, resampled whether _resample was invoked
NoFold == [op |-> "none", kind |-> "none", train |-> <<>>, test |-> <<>>,
           boundary |-> 0, rounds |-> 0, raw_train |-> <<>>, resampled |-> FALSE]

\* _resample: the set of outcomes over all random draws, each a record
\* [kind |-> "ok", train |-> ...] or [kind |-> "ValueError", ...]
\* as UpsampleResult, with the drawn rows put after the fire rows only
UpsampleResult_Mut(train, positive, s) == positive \o s
UpsampleResult(train, positive, s) == train \o s
\* as DownsampleResult, with the sample added to the whole training set
DownsampleResult_Mut(train, positive, s) == train \o s
DownsampleResult(train, positive, s) == positive \o s

Resample(fb, train, method) ==
    LET positive_indices == Intersect1d(FireIndices(fb), train)
        negative_indices == Setdiff1d(train, FireIndices(fb))
        k == Len(positive_indices)
        choices == IF method = "simple upsample"
                   THEN RandomChoice(positive_indices, k, TRUE)
                   ELSE RandomChoice(negative_indices, k, FALSE)
    IN  { IF ~c.ok THEN [kind |-> "ValueError", train |-> <<>>, resampled |-> TRUE]
          ELSE [kind |-> "ok", resampled |-> TRUE,
                train |-> IF method = "simple upsample"
                          THEN UpsampleResult(train, positive_indices, c.sample)
                          ELSE DownsampleResult(train, positive_indices, c.sample)]
          : c \in choices }

\* _check_resample: the training set as it is when its fire rate is above
\* the threshold, resampled otherwise
NeedsResample(fb, train, pct) == ~MeanAbove(fb, train, pct)

CheckResample(fb, train, pct, method) ==
    IF NeedsResample(fb, train, pct)
    THEN Resample(fb, train, method)
    ELSE {[kind |-> "ok", train |-> train, resampled |-> FALSE]}

----------------------------------------------------------------------------
(* Design A: SequentialTimeFold.next                                       *)

\* as SeqA_TestIndices, without the upper end of the one-day window
SeqA_TestIndices_Mut(ds, td) == Where([i \in 1..Len(ds) |-> ds[i] >= td])
SeqA_TestIndices(ds, td) == Where([i \in 1..Len(ds) |-> ds[i] >= td /\ ds[i] < td + Day])
\* as SeqA_TrainIndices, with the boundary day itself taken into training
SeqA_TrainIndices_Mut(ds, td) == Where([i \in 1..Len(ds) |-> ds[i] <= td])
SeqA_TrainIndices(ds, td) == Where([i \in 1..Len(ds) |-> ds[i] < td])

\* the while loop: one round per recursion, until a round finds test rows;
\* stepping the boundary below datetime.min raises OverflowError
RECURSIVE SeqA_Loop(_, _, _, _)
SeqA_Loop(ds, step, td, rounds) ==
    LET test == SeqA_TestIndices(ds, td)
        train == SeqA_TrainIndices(ds, td)
    IN  IF td - step < MinTick
        THEN [kind |-> "OverflowError", train |-> train, test |-> test,
              boundary |-> td, test_date |-> td, rounds |-> rounds]
        ELSE IF Len(test) # 0
        THEN [kind |-> "ok", train |-> train, test |-> test,
              boundary |-> td, test_date |-> td - step, rounds |-> rounds + 1]
        ELSE SeqA_Loop(ds, step, td - step, rounds + 1)

\* the cap test `self.n_folds <= self.max_folds`
UnderCap(n, cap) == n <= cap

----------------------------------------------------------------------------
(* Design A: StratifiedTimeFold.next                                       *)

\* _set_years_list: xrange(year_min, year_max + 1)
YearsList(ds) ==
    LET ys == {YearOf(ds[i]) : i \in 1..Len(ds)}
    IN  SortedSeq(Min(ys) .. Max(ys))

StratA_TestIndices(ds, td, step) ==
    Where([i \in 1..Len(ds) |-> ds[i] >= td /\ ds[i] < td + step])

\* _get_date_range: the window of days_back days that ends at the boundary
\* for the boundary's own year, and at datetime(year, month, day + 1) for
\* any other year; datetime() raises ValueError for a day the month lacks
\* and the subtraction OverflowError below datetime.min
StratA_RangeStart(year, td) ==
    IF year = YearOf(td) THEN td
    ELSE Tick(year, MonthOf(td), DayOfMonth(td) + 1, 0)

StratA_StartValid(year, td) ==
    year = YearOf(td) \/ ValidDate(year, MonthOf(td), DayOfMonth(td) + 1)

\* pd.date_range(start - timedelta(days=days_back), start)
StratA_Window(start_date_range, db) ==
    IF start_date_range - db * Day < MinTick
    THEN [kind |-> "OverflowError", min |-> 0, max |-> 0]
    ELSE [kind |-> "ok",
          min |-> DateRangeMin(start_date_range - db * Day, start_date_range),
          max |-> DateRangeMax(start_date_range - db * Day, start_date_range)]

StratA_DateRange(year, td, db) ==
    IF ~StratA_StartValid(year, td)
    THEN [kind |-> "ValueError", min |-> 0, max |-> 0]
    ELSE StratA_Window(StratA_RangeStart(year, td), db)

\* _grab_indices
StratA_GrabIndices(ds, lo, hi) == Where([i \in 1..Len(ds) |-> ds[i] >= lo /\ ds[i] < hi])

\* the for loop over years_list, from its k-th year on: each year's
\* indices are put in front of those gathered so far (r is the year's
\* date range)
RECURSIVE StratA_GatherYears(_, _, _, _, _, _)
RECURSIVE StratA_GatherYear(_, _, _, _, _, _, _)
StratA_GatherYear(ds, yl, k, td, db, train, r) ==
    IF r.kind # "ok" THEN [kind |-> r.kind, train |-> train]
    ELSE StratA_GatherYears(ds, yl, k + 1, td, db,
             StratA_GrabIndices(ds, r.min, r.max) \o train)

StratA_GatherYears(ds, yl, k, td, db, train) ==
    IF k > Len(yl) THEN [kind |-> "ok", train |-> train]
    ELSE StratA_GatherYear(ds, yl, k, td, db, train,
                           StratA_DateRange(yl[k], td, db))

\* train_indices = np.where(self.all_dates < self.test_date)[0]
StratA_FallbackTrain(ds, td) == Where([i \in 1..Len(ds) |-> ds[i] < td])

\* the training set a round keeps: all earlier rows when the gathered
\* rows' fire rate is below the cutoff
StratA_Kept(ds, fb, cutoff, td, gathered) ==
    IF MeanBelow(fb, gathered, cutoff)
    THEN StratA_FallbackTrain(ds, td) ELSE gathered

\* the while loop: one round per recursion, train_indices carried from
\* round to round (test is the round's test slice, g what its for loop
\* gathered, kept the training set it ends with)
RECURSIVE StratA_Loop(_, _, _, _, _, _, _, _)
RECURSIVE StratA_Round(_, _, _, _, _, _, _, _, _)
RECURSIVE StratA_RoundEnd(_, _, _, _, _, _, _, _, _)
StratA_RoundEnd(ds, fb, step, db, cutoff, td, rounds, test, kept) ==
    IF td - step < MinTick
    THEN [kind |-> "OverflowError", train |-> kept, test |-> test,
          boundary |-> td, test_date |-> td, rounds |-> rounds]
    ELSE IF Len(test) # 0
    THEN [kind |-> "ok", train |-> kept, test |-> test,
          boundary |-> td, test_date |-> td - step, rounds |-> rounds + 1]
    ELSE StratA_Loop(ds, fb, step, db, cutoff, td - step, kept, rounds + 1)

StratA_Round(ds, fb, step, db, cutoff, td, rounds, test, g) ==
    IF g.kind # "ok"
    THEN [kind |-> g.kind, train |-> g.train, test |-> test,
          boundary |-> td, test_date |-> td, rounds |-> rounds]
    ELSE StratA_RoundEnd(ds, fb, step, db, cutoff, td, rounds, test,
                         StratA_Kept(ds, fb, cutoff, td, g.train))

StratA_Loop(ds, fb, step, db, cutoff, td, train, rounds) ==
    StratA_Round(ds, fb, step, db, cutoff, td, rounds,
                 StratA_TestIndices(ds, td, step),
                 StratA_GatherYears(ds, YearsList(ds), 1, td, db, train))

----------------------------------------------------------------------------
(* Design B: BaseTimeFold (master side).                                   *)

None == -1      \* init_split_point=None

\* _set_init_split_point: min(dates) + step_size, rounded down to midnight
SetInitSplitPoint(ds, step) == Midnight(Min(Range(ds)) + step)

\* __init__: `if not init_split_point`
InitSplitPoint(ds, step, isp) ==
    IF isp = None THEN SetInitSplitPoint(ds, step) ELSE isp

\* self.test_indices = np.array((3, 4))
InitTestIndices == <<3, 4>>

(* Design B: SequentialTimeFold.next                                       *)

\* as SeqB_TestIndices, with the split point itself left out
SeqB_TestIndices_Mut(ds, sp) == Where([i \in 1..Len(ds) |-> ds[i] > sp])
SeqB_TestIndices(ds, sp) == Where([i \in 1..Len(ds) |-> ds[i] >= sp])
\* as SeqB_TrainIndices, with the rows dated at the split point taken too
SeqB_TrainIndices_Mut(ds, sp) == Where([i \in 1..Len(ds) |-> ds[i] <= sp])
SeqB_TrainIndices(ds, sp) == Where([i \in 1..Len(ds) |-> ds[i] < sp])

(* Design B: StratifiedTimeFold.next                                       *)

\* _get_date_range: the split point with its year replaced, extended by
\* the step size; datetime() raises ValueError for February 29th in a year
\* that has none
StratB_RangeStart(year, sp) ==
    Tick(year, MonthOf(sp), DayOfMonth(sp), TimeOf(sp))

\* pd.date_range(start, start + step_size)
StratB_Window(start_date_range, step) ==
    [kind |-> "ok",
     min |-> DateRangeMin(start_date_range, start_date_range + step),
     max |-> DateRangeMax(start_date_range, start_date_range + step)]

StratB_DateRange(year, sp, step) ==
    IF ~ValidDate(year, MonthOf(sp), DayOfMonth(sp))
    THEN [kind |-> "ValueError", min |-> 0, max |-> 0]
    ELSE StratB_Window(StratB_RangeStart(year, sp), step)

\* _grab_indices
StratB_GrabTest(ds, lo, hi, sp) ==
    Where([i \in 1..Len(ds) |-> ds[i] >= lo /\ ds[i] < hi /\ ds[i] >= sp])
\* as StratB_GrabTrain, without the cut at the split point
StratB_GrabTrain_Mut(ds, lo, hi, sp) ==
    Where([i \in 1..Len(ds) |-> ds[i] >= lo /\ ds[i] < hi])
StratB_GrabTrain(ds, lo, hi, sp) ==
    Where([i \in 1..Len(ds) |-> ds[i] >= lo /\ ds[i] < hi /\ ds[i] < sp])

\* the for loop over years_list, from its k-th year on (r is the year's
\* date range)
RECURSIVE StratB_GatherYears(_, _, _, _, _, _, _)
RECURSIVE StratB_GatherYear(_, _, _, _, _, _, _, _)
StratB_GatherYear(ds, yl, k, sp, step, train, test, r) ==
    IF r.kind # "ok"
    THEN [kind |-> r.kind, train |-> train, test |-> test]
    ELSE StratB_GatherYears(ds, yl, k + 1, sp, step,
             StratB_GrabTrain(ds, r.min, r.max, sp) \o train,
             StratB_GrabTest(ds, r.min, r.max, sp) \o test)

StratB_GatherYears(ds, yl, k, sp, step, train, test) ==
    IF k > Len(yl) THEN [kind |-> "ok", train |-> train, test |-> test]
    ELSE StratB_GatherYear(ds, yl, k, sp, step, train, test,
                           StratB_DateRange(yl[k], sp, step))

\* the test `self.test_indices.shape[0] != 0` on the previous round's slice
StratB_Continue(prev_test) == Len(prev_test) # 0

----------------------------------------------------------------------------
(* run_model.py: get_model, get_grid_params, grid_search, log_results.     *)

ModelNames == {"logit", "random_forest", "gradient_boosting", "neural_net"}
\* what sys.argv[1] can hold: a name of the four, or another one
ModelArgs == ModelNames \cup {"svm"}

\* get_model: the if/elif chain has no else branch, so any other name
\* falls off the end of the function, which returns None
get_model(model_name) ==
    CASE model_name = "logit" -> "LogisticRegression"
      [] model_name = "random_forest" -> "RandomForestClassifier"
      [] model_name = "gradient_boosting" -> "GradientBoostingClassifier"
      [] model_name = "neural_net" -> "Sequential"
      [] OTHER -> "None"

\* get_grid_params: the names of the grid's hyperparameters; no else
\* branch either
get_grid_params(model_name) ==
    CASE model_name = "logit" -> <<"penalty", "C">>
      [] model_name = "random_forest" -> <<"n_estimators", "max_depth">>
      [] model_name = "gradient_boosting" -> <<"learning_rate">>
      [] OTHER -> <<"None">>

\* the steps of the __main__ pipeline at which the environment can make it
\* raise before the log is opened (a missing input file, a missing column,
\* a fit, a prediction or a scoring that fails)
RunnerSteps == {"pickle.load", "tt_split_all_less60", "grid_search",
                "predict_with_model", "return_scores"}

\* grid_search: the network is fitted directly; any other model goes
\* through GridSearchCV, whose constructor checks the parameter grid and
\* raises TypeError for a grid that is None
grid_search_fit(model, grid, fail) ==
    IF grid = <<"None">>
    THEN [kind |-> "TypeError", model |-> model, grid |-> grid]
    ELSE IF fail = "grid_search"
    THEN [kind |-> "ValueError", model |-> model, grid |-> grid]
    ELSE [kind |-> "ok", model |-> model, grid |-> grid]

grid_search(model_name, fail) ==
    IF get_model(model_name) = "Sequential"
    THEN [kind |-> IF fail = "grid_search" THEN "ValueError" ELSE "ok",
          model |-> "Sequential", grid |-> <<>>]
    ELSE grid_search_fit(get_model(model_name), get_grid_params(model_name),
                         fail)

\* lines of a text file: a timestamp, a run of n copies of one character,
\* a label followed by text, or an empty line
TimestampLine(st) == [kind |-> "st", n |-> st, s |-> "", v |-> <<>>]
CharLine(c, n) == [kind |-> "chars", n |-> n, s |-> c, v |-> <<>>]
TextLine(label, text) == [kind |-> "text", n |-> 0, s |-> label, v |-> text]
EmptyLine == [kind |-> "text", n |-> 0, s |-> "", v |-> <<>>]

DashCount == 100

\* ', '.join(columns)
RECURSIVE Join(_, _)
Join(sep, cols) ==
    IF Len(cols) = 0 THEN <<>>
    ELSE IF Len(cols) = 1 THEN cols
    ELSE <<cols[1], sep>> \o Join(sep, Tail(cols))

\* the six f.write calls of log_results, each with the lines it writes
LogWrites(st, model_name, model, columns, scores) ==
    << <<TimestampLine(st)>>,
       <<CharLine("-", DashCount)>>,
       <<TextLine("Model Run: ", <<model_name>>), EmptyLine>>,
       <<TextLine("Params: ", <<model, "get_params()">>), EmptyLine>>,
       <<TextLine("Features: ", Join(", ", columns)), EmptyLine>>,
       <<TextLine("Scores: ", <<scores>>), EmptyLine>> >>

RECURSIVE Flatten(_)
Flatten(chunks) ==
    IF chunks = <<>> THEN <<>> ELSE Head(chunks) \o Flatten(Tail(chunks))

\* what open(filename, mode) leaves of a file's earlier content
OpenedFile(content, mode) == IF mode = "a+" THEN content ELSE <<>>

\* as LogOpenMode, with the mode create_inputs.py opens its output in
LogOpenMode_Mut == "w+"
LogOpenMode == "a+"

\* log_results when its first `written` writes are made before it raises
\* (all six when it does not raise): the with block closes the file, so
\* what was written stays in it
log_results(content, writes, written) ==
    OpenedFile(content, LogOpenMode) \o Flatten(SubSeq(writes, 1, written))

NoRun == [model_name |-> "", status |-> "none", at |-> "", error |-> "",
          model |-> "", grid |-> <<>>]

----------------------------------------------------------------------------
(* create_inputs.py.                                                       *)

\* the steps at which the environment can make the script raise before
\* the output file is opened
BuilderSteps == {"pickle.load", "pd.read_csv", "combine_dfs", "grab_columns",
                 "break_time_col", "featurization_dict[v]"}

\* ./input_df.pkl: whether it exists and what it holds
Absent == [exists |-> FALSE, content |-> ""]
Pickled(df) == [exists |-> TRUE, content |-> df]

\* with open('./input_df.pkl', 'w+') as f: pickle.dump(df, f), where dumped
\* tells whether pickle.dump returns: open creates or truncates the file,
\* and a dump that raises leaves it empty or with part of the stream
DumpOutcomes(df, dumped) ==
    IF dumped THEN {Pickled(df)} ELSE {Pickled(""), Pickled("partial")}

NoBuild == [status |-> "none", at |-> ""]

----------------------------------------------------------------------------
(* The tables and parameters the iterators are built from.                 *)

RowDays == {<<MinYear, 2, 27>>, <<MinYear, 2, 28>>, <<MinYear, 2, 29>>,
            <<MinYear, 3, 1>>, <<MinYear + 1, 2, 27>>, <<MinYear + 1, 2, 28>>,
            <<MinYear + 1, 3, 1>>}

\* date_fire holds whole days; Design B takes any datetimes
DatesA == {Tick(r[1], r[2], r[3], 0) : r \in RowDays}
DatesB == {Tick(r[1], r[2], r[3], h) : r \in RowDays, h \in {0, Day \div 2}}

\* tables of 1..MaxRows rows, listed in date order
Tables(D) ==
    UNION {{s \in [1..n -> D] : \A i \in 1..(n - 1) : s[i] <= s[i + 1]}
           : n \in 1..MaxRows}

StepSizesA == {Day, 2 * Day}
StepSizesB == {Day \div 2, Day, Day + Day \div 2}
TestSetDates == {Tick(MinYear, 2, 28, 0), Tick(MinYear, 2, 29, 0), Tick(MinYear, 3, 1, 0)}
InitSplitPoints == {None, Tick(MinYear, 2, 28, 0), Tick(MinYear, 2, 28, Day \div 2),
                    Tick(MinYear, 2, 29, 0), Tick(MinYear + 1, 2, 27, 0)}
ResampleMethods == {"simple upsample", "downsample"}
DefaultCutoffPct == 5
DefaultResamplePct == 20
ResamplePcts == {DefaultResamplePct, 50}

\* no script has been run
ScriptsIdle ==
    /\ log_files = [name \in ModelArgs |-> <<>>]
    /\ run = NoRun /\ invocations = <<>> /\ now = 0
    /\ input_df_pkl = Absent /\ build = NoBuild

Fresh ==
    /\ n_folds = 0 /\ result = NoFold /\ calls = 0 /\ returned = 0
    /\ ScriptsIdle

\* BaseTimeFold.__init__ (A) as SequentialTimeFold uses it
InitSeqA ==
    /\ cls = "SeqA"
    /\ dates \in Tables(DatesA)
    /\ fire_bool = [i \in 1..Len(dates) |-> FALSE]
    /\ step_size \in StepSizesA
    /\ max_folds \in 0..MaxFolds
    /\ \E test_set_date \in TestSetDates : test_date = test_set_date - Day
    /\ days_back = 0 /\ cutoff_train_fire_pct = 0 /\ resample_train_fire_pct = 0
    /\ resample_method = "" /\ init_split_point = 0 /\ split_point = 0
    /\ test_indices = <<>>
    /\ train_arg = <<>>
    /\ Fresh

\* StratifiedTimeFold.__init__ (A)
InitStratA ==
    /\ cls = "StratA"
    /\ dates \in Tables(DatesA)
    /\ fire_bool \in [1..Len(dates) -> BOOLEAN]
    /\ step_size \in StepSizesA
    /\ max_folds \in 0..MaxFolds
    /\ \E test_set_date \in TestSetDates : test_date = test_set_date - Day
    /\ days_back \in 1..MaxDaysBack
    /\ cutoff_train_fire_pct = DefaultCutoffPct
    /\ resample_train_fire_pct = DefaultResamplePct
    /\ resample_method \in ResampleMethods
    /\ init_split_point = 0 /\ split_point = 0 /\ test_indices = <<>>
    /\ train_arg = <<>>
    /\ Fresh

\* BaseTimeFold.__init__ (B)
InitB(c) ==
    /\ cls = c
    /\ dates \in Tables(DatesB)
    /\ fire_bool = [i \in 1..Len(dates) |-> FALSE]
    /\ step_size \in StepSizesB
    /\ \E isp \in InitSplitPoints :
          init_split_point = InitSplitPoint(dates, step_size, isp)
    /\ split_point = init_split_point
    /\ test_indices = InitTestIndices
    /\ max_folds = 0 /\ test_date = 0 /\ days_back = 0
    /\ cutoff_train_fire_pct = 0 /\ resample_train_fire_pct = 0
    /\ resample_method = "" /\ train_arg = <<>>
    /\ Fresh

InitSeqB == InitB("SeqB")
InitStratB == InitB("StratB")

\* a table of fire flags and a train_indices array over it, for the
\* resampling methods taken on their own
InitResample ==
    /\ cls = "Resample"
    /\ \E n \in 1..MaxTrain :
          /\ fire_bool \in [1..n -> BOOLEAN]
          /\ dates = [i \in 1..n |-> MinTick]
          /\ train_arg \in UNION {[1..k -> 1..n] : k \in 0..MaxTrain}
    /\ resample_train_fire_pct \in ResamplePcts
    /\ resample_method \in ResampleMethods
    /\ step_size = Day /\ max_folds = 0 /\ test_date = 0 /\ days_back = 0
    /\ cutoff_train_fire_pct = 0 /\ init_split_point = 0 /\ split_point = 0
    /\ test_indices = <<>>
    /\ Fresh

\* the columns of the training table, the scores return_scores gives and
\* the feature tables create_inputs.py can come to
ColumnLists == {<<"fire_bool", "lat">>, <<"fire_bool", "lat", "conf">>}
ScoreTexts == {"scores_1", "scores_2"}
FeatureTables == {"df_1", "df_2"}

\* no iterator is in use
NoIterator ==
    /\ dates = <<>> /\ fire_bool = <<>> /\ step_size = 0 /\ max_folds = 0
    /\ test_date = 0 /\ days_back = 0 /\ cutoff_train_fire_pct = 0
    /\ resample_train_fire_pct = 0 /\ resample_method = ""
    /\ init_split_point = 0 /\ split_point = 0 /\ test_indices = <<>>
    /\ train_arg = <<>>
    /\ n_folds = 0 /\ result = NoFold /\ calls = 0 /\ returned = 0

\* before run_model.py is first run: no log yet
InitRunner ==
    /\ cls = "Runner"
    /\ NoIterator
    /\ ScriptsIdle

\* before create_inputs.py is run: input_df.pkl absent, or left by an
\* earlier build
InitBuilder ==
    /\ cls = "Builder"
    /\ NoIterator
    /\ log_files = [name \in ModelArgs |-> <<>>]
    /\ run = NoRun /\ invocations = <<>> /\ now = 0
    /\ input_df_pkl \in {Absent} \cup {Pickled(df) : df \in FeatureTables}
    /\ build = NoBuild

----------------------------------------------------------------------------
(* The operations.                                                         *)

\* SequentialTimeFold.next (A)
SeqA_Next ==
    /\ cls = "SeqA"
    /\ calls < MaxCalls
    /\ LET r == SeqA_Loop(dates, step_size, test_date, 0)
           out == [NoFold EXCEPT !.op = "next", !.boundary = r.boundary,
                                 !.rounds = r.rounds]
       IN  /\ test_date' = r.test_date
           /\ IF r.kind # "ok"
              THEN /\ result' = [out EXCEPT !.kind = r.kind]
                   /\ UNCHANGED <<n_folds, returned>>
              ELSE IF UnderCap(n_folds, max_folds)
              THEN /\ n_folds' = n_folds + 1
                   /\ returned' = returned + 1
                   /\ result' = [out EXCEPT !.kind = "fold", !.train = r.train,
                                            !.test = r.test, !.raw_train = r.train]
              ELSE /\ result' = [out EXCEPT !.kind = "StopIteration"]
                   /\ UNCHANGED <<n_folds, returned>>
    /\ calls' = calls + 1
    /\ UNCHANGED <<cls, dates, fire_bool, step_size, max_folds, days_back,
                   cutoff_train_fire_pct, resample_train_fire_pct,
                   resample_method, init_split_point, split_point, test_indices,
                   train_arg>>
    /\ UNCHANGED scriptVars

\* StratifiedTimeFold.next (A): r is what the while loop came to
StratA_Finish(r, out) ==
    /\ test_date' = r.test_date
    /\ IF r.kind # "ok"
       THEN /\ result' = [out EXCEPT !.kind = r.kind]
            /\ UNCHANGED <<n_folds, returned>>
       ELSE \E c \in CheckResample(fire_bool, r.train,
                                   resample_train_fire_pct, resample_method) :
              IF c.kind # "ok"
              THEN /\ result' = [out EXCEPT !.kind = c.kind,
                                            !.resampled = c.resampled]
                   /\ UNCHANGED <<n_folds, returned>>
              ELSE IF UnderCap(n_folds, max_folds)
              THEN /\ n_folds' = n_folds + 1
                   /\ returned' = returned + 1
                   /\ result' = [out EXCEPT !.kind = "fold", !.train = c.train,
                                            !.test = r.test,
                                            !.resampled = c.resampled]
              ELSE /\ result' = [out EXCEPT !.kind = "StopIteration",
                                            !.resampled = c.resampled]
                   /\ UNCHANGED <<n_folds, returned>>

CallOutcome(r) ==
    [NoFold EXCEPT !.op = "next", !.boundary = r.boundary,
                   !.rounds = r.rounds, !.raw_train = r.train]

StratA_Returns(r) == StratA_Finish(r, CallOutcome(r))

StratA_Next ==
    /\ cls = "StratA"
    /\ calls < MaxCalls
    /\ StratA_Returns(StratA_Loop(dates, fire_bool, step_size, days_back,
                                  cutoff_train_fire_pct, test_date, <<>>, 0))
    /\ calls' = calls + 1
    /\ UNCHANGED <<cls, dates, fire_bool, step_size, max_folds, days_back,
                   cutoff_train_fire_pct, resample_train_fire_pct,
                   resample_method, init_split_point, split_point, test_indices,
                   train_arg>>
    /\ UNCHANGED scriptVars

\* SequentialTimeFold.next (B)
SeqB_Next ==
    /\ cls = "SeqB"
    /\ calls < MaxCalls
    /\ LET test == SeqB_TestIndices(dates, split_point)
           train == SeqB_TrainIndices(dates, split_point)
           out == [NoFold EXCEPT !.op = "next", !.boundary = split_point,
                                 !.rounds = 1]
       IN  /\ test_indices' = test
           /\ split_point' = split_point + step_size
           /\ IF Len(test) # 0
              THEN /\ n_folds' = n_folds + 1
                   /\ returned' = returned + 1
                   /\ result' = [out EXCEPT !.kind = "fold", !.train = train,
                                            !.test = test, !.raw_train = train]
              ELSE /\ result' = [out EXCEPT !.kind = "StopIteration"]
                   /\ UNCHANGED <<n_folds, returned>>
    /\ calls' = calls + 1
    /\ UNCHANGED <<cls, dates, fire_bool, step_size, max_folds, test_date,
                   days_back, cutoff_train_fire_pct, resample_train_fire_pct,
                   resample_method, init_split_point, train_arg>>
    /\ UNCHANGED scriptVars

\* StratifiedTimeFold.next (B): g is what the for loop gathered
StratB_Gathered(g, out) ==
    /\ n_folds' = n_folds + 1
    /\ IF g.kind # "ok"
       THEN /\ result' = [out EXCEPT !.kind = g.kind]
            /\ UNCHANGED <<split_point, test_indices, returned>>
       ELSE /\ split_point' = split_point + step_size
            /\ test_indices' = g.test
            /\ returned' = returned + 1
            /\ result' = [out EXCEPT !.kind = "fold", !.train = g.train,
                                     !.test = g.test, !.raw_train = g.train]

StratB_Next ==
    /\ cls = "StratB"
    /\ calls < MaxCalls
    /\ IF StratB_Continue(test_indices)
       THEN StratB_Gathered(
                StratB_GatherYears(dates, YearsList(dates), 1, split_point,
                                   step_size, <<>>, <<>>),
                [NoFold EXCEPT !.op = "next", !.boundary = split_point,
                               !.rounds = 1])
       ELSE /\ result' = [NoFold EXCEPT !.op = "next", !.kind = "StopIteration",
                                        !.boundary = split_point, !.rounds = 1]
            /\ UNCHANGED <<n_folds, split_point, test_indices, returned>>
    /\ calls' = calls + 1
    /\ UNCHANGED <<cls, dates, fire_bool, step_size, max_folds, test_date,
                   days_back, cutoff_train_fire_pct, resample_train_fire_pct,
                   resample_method, init_split_point, train_arg>>
    /\ UNCHANGED scriptVars

\* a call of _resample / of _check_resample on train_arg
ResampleCall ==
    /\ cls = "Resample"
    /\ calls = 0
    /\ \E c \in Resample(fire_bool, train_arg, resample_method) :
          result' = [NoFold EXCEPT !.op = "_resample", !.kind = c.kind,
                                   !.train = c.train, !.raw_train = train_arg,
                                   !.resampled = c.resampled]
    /\ calls' = calls + 1
    /\ UNCHANGED <<cls, dates, fire_bool, step_size, max_folds, test_date,
                   days_back, cutoff_train_fire_pct, resample_train_fire_pct,
                   resample_method, init_split_point, split_point, test_indices,
                   n_folds, train_arg, returned>>
    /\ UNCHANGED scriptVars

CheckResampleCall ==
    /\ cls = "Resample"
    /\ calls = 0
    /\ \E c \in CheckResample(fire_bool, train_arg, resample_train_fire_pct,
                              resample_method) :
          result' = [NoFold EXCEPT !.op = "_check_resample", !.kind = c.kind,
                                   !.train = c.train, !.raw_train = train_arg,
                                   !.resampled = c.resampled]
    /\ calls' = calls + 1
    /\ UNCHANGED <<cls, dates, fire_bool, step_size, max_folds, test_date,
                   days_back, cutoff_train_fire_pct, resample_train_fire_pct,
                   resample_method, init_split_point, split_point, test_indices,
                   n_folds, train_arg, returned>>
    /\ UNCHANGED scriptVars

\* an invocation that raised at step `at` with `error`
Raised(model_name, at, error, g) ==
    [model_name |-> model_name, status |-> "raised", at |-> at,
     error |-> error, model |-> g.model, grid |-> g.grid]
Unset == [kind |-> "ok", model |-> "", grid |-> <<>>]

\* what an invocation leaves in `invocations`
Invocation(model_name, ok, st, columns, scores) ==
    [model_name |-> model_name, ok |-> ok, st |-> st, columns |-> columns,
     scores |-> scores]

\* log_results(model_name, train, fitted_model, scores) making `written`
\* of its six writes, at time st
RunModelLog(model_name, written, columns, scores, g, st) ==
    /\ log_files' = [log_files EXCEPT ![model_name] =
           log_results(@, LogWrites(st, model_name, g.model, columns, scores),
                       written)]
    /\ IF written < 6
       THEN /\ run' = Raised(model_name, "log_results", "IOError", g)
            /\ invocations' = Append(invocations,
                   Invocation(model_name, FALSE, 0, <<>>, ""))
       ELSE /\ run' = [model_name |-> model_name, status |-> "done",
                       at |-> "", error |-> "", model |-> g.model,
                       grid |-> g.grid]
            /\ invocations' = Append(invocations,
                   Invocation(model_name, TRUE, st, columns, scores))

\* run_model.py's __main__ from grid_search on (g is what grid_search came
\* to): predict, score, then log_results
RunModelFrom(model_name, fail, g) ==
    IF g.kind # "ok"
    THEN /\ run' = Raised(model_name, "grid_search", g.kind, g)
         /\ invocations' = Append(invocations,
                                  Invocation(model_name, FALSE, 0, <<>>, ""))
         /\ UNCHANGED log_files
    ELSE IF fail \in {"predict_with_model", "return_scores"}
    THEN /\ run' = Raised(model_name, fail, "ValueError", g)
         /\ invocations' = Append(invocations,
                                  Invocation(model_name, FALSE, 0, <<>>, ""))
         /\ UNCHANGED log_files
    ELSE \E written \in 0..6, columns \in ColumnLists, scores \in ScoreTexts :
             RunModelLog(model_name, written, columns, scores, g, now')

\* one invocation of run_model.py, a second or more after the one before:
\* model_name is sys.argv[1], fail the step that raises (if any) before
\* log_results is called
RunModel ==
    /\ cls = "Runner"
    /\ Len(invocations) < MaxRuns
    /\ now' = now + 1
    /\ \E model_name \in ModelArgs, fail \in RunnerSteps \cup {"none"} :
          IF fail \in {"pickle.load", "tt_split_all_less60"}
          THEN /\ run' = Raised(model_name, fail,
                                IF fail = "pickle.load" THEN "IOError"
                                ELSE "KeyError", Unset)
               /\ invocations' = Append(invocations,
                      Invocation(model_name, FALSE, 0, <<>>, ""))
               /\ UNCHANGED log_files
          ELSE RunModelFrom(model_name, fail, grid_search(model_name, fail))
    /\ UNCHANGED <<input_df_pkl, build>>
    /\ UNCHANGED foldVars

\* one invocation of create_inputs.py: fail is the step that raises before
\* the output is opened (if any), dumped whether pickle.dump returns
CreateInputs ==
    /\ cls = "Builder"
    /\ \E fail \in BuilderSteps \cup {"none"}, df \in FeatureTables,
          dumped \in BOOLEAN :
          IF fail # "none"
          THEN /\ build' = [status |-> "raised", at |-> fail]
               /\ UNCHANGED input_df_pkl
          ELSE /\ input_df_pkl' \in DumpOutcomes(df, dumped)
               /\ build' = IF dumped THEN [status |-> "done", at |-> ""]
                           ELSE [status |-> "raised", at |-> "pickle.dump"]
    /\ UNCHANGED <<log_files, run, invocations, now>>
    /\ UNCHANGED foldVars

Init ==
    \/ InitSeqA \/ InitStratA \/ InitSeqB \/ InitStratB \/ InitResample
    \/ InitRunner \/ InitBuilder

Next ==
    \/ SeqA_Next
    \/ StratA_Next
    \/ SeqB_Next
    \/ StratB_Next
    \/ ResampleCall
    \/ CheckResampleCall
    \/ RunModel
    \/ CreateInputs

Spec == Init /\ [][Next]_vars

SpecSeqA == InitSeqA /\ [][SeqA_Next]_vars
SpecStratA == InitStratA /\ [][StratA_Next]_vars
SpecSeq == (InitSeqA \/ InitSeqB) /\ [][SeqA_Next \/ SeqB_Next]_vars
SpecSeqB == InitSeqB /\ [][SeqB_Next]_vars
SpecStratB == InitStratB /\ [][StratB_Next]_vars
SpecResample == InitResample /\ [][ResampleCall \/ CheckResampleCall]_vars
SpecRunner == InitRunner /\ [][RunModel]_vars
SpecScripts ==
    (InitRunner \/ InitBuilder) /\ [][RunModel \/ CreateInputs]_vars

----------------------------------------------------------------------------
(* Properties.                                                             *)

Disjoint(a, b) == Range(a) \cap Range(b) = {}
Daily(ds) == \A i \in 1..Len(ds) : TimeOf(ds[i]) = 0
IsFold(c) == cls = c /\ result.op = "next" /\ result.kind = "fold"

C2_NoFutureTrain ==
    IsFold("StratA")
    => \A i \in Range(result.train) : dates[i] < result.boundary

\* C3: in every fold StratifiedTimeFold (A) returns, train and test index
\* arrays are disjoint.
C3_StratADisjoint ==
    IsFold("StratA") => Disjoint(result.train, result.test)

\* the per-year window of Design B for a split point sp: the split point
\* with its year replaced by y, step_size wide
InYearWindow(d, y, sp, step) ==
    /\ ValidDate(y, MonthOf(sp), DayOfMonth(sp))
    /\ d >= Tick(y, MonthOf(sp), DayOfMonth(sp), TimeOf(sp))
    /\ d < Tick(y, MonthOf(sp), DayOfMonth(sp), TimeOf(sp)) + step

\* C4: in every fold StratifiedTimeFold (B) returns, train and test are
\* disjoint, train rows are dated strictly before the fold's split point,
\* test rows at or after it, and every returned row lies in the window
\* [split_point, split_point + step_size) of some year of years_list.
C4_StratBFold ==
    IsFold("StratB")
    => /\ Disjoint(result.train, result.test)
       /\ \A i \in Range(result.train) : dates[i] < result.boundary
       /\ \A j \in Range(result.test) : dates[j] >= result.boundary
       /\ \A i \in Range(result.train) \cup Range(result.test) :
             \E y \in Range(YearsList(dates)) :
                 InYearWindow(dates[i], y, result.boundary, step_size)

C4_Witness ==
    IsFold("StratB") /\ result.train # <<>> /\ result.test # <<>>

C6_SeqBEndOfStream ==
    cls = "SeqB"
    => /\ result.op = "next"
          => /\ result.kind \in {"fold", "StopIteration"}
             /\ result.kind = "StopIteration"
                <=> \A i \in 1..Len(dates) : dates[i] < result.boundary
       /\ split_point = init_split_point + calls * step_size
       /\ returned = Cardinality({k \in 0..(calls - 1) :
                         init_split_point + k * step_size <= Max(Range(dates))})

C6_Witness ==
    /\ cls = "SeqB" /\ result.op = "next" /\ result.kind = "StopIteration"
    /\ returned >= 2

\* some split point sp + k * step (k >= 0) has a row dated at or after it
\* in one of its per-year windows
LaterTestSlice(ds, sp, step) ==
    \E k \in 0..((Max(Range(ds)) - sp) \div step) :
        \E i \in 1..Len(ds), y \in Range(YearsList(ds)) :
            /\ ds[i] >= sp + k * step
            /\ InYearWindow(ds[i], y, sp + k * step, step)

\* C7: when StratifiedTimeFold (B) signals end-of-stream, no split point
\* from the current one on has a non-empty test slice.
C7_StratBStopsAtEnd ==
    (cls = "StratB" /\ result.op = "next" /\ result.kind = "StopIteration")
    => ~LaterTestSlice(dates, split_point, step_size)

C9_LenCountsFolds ==
    cls \in {"SeqA", "StratA", "SeqB", "StratB"} => n_folds = returned

\* number of entries of the array a that equal x
Occurrences(a, x) == Cardinality({k \in 1..Len(a) : a[k] = x})
DupFree(a) == \A i, j \in 1..Len(a) : i # j => a[i] # a[j]
Positives(a) == {x \in Range(a) : fire_bool[x]}
Negatives(a) == {x \in Range(a) : ~fire_bool[x]}

RECURSIVE RunsOf(_, _)
RunsOf(invs, model_name) ==
    IF invs = <<>> THEN <<>>
    ELSE IF Head(invs).model_name = model_name
    THEN <<Head(invs)>> \o RunsOf(Tail(invs), model_name)
    ELSE RunsOf(Tail(invs), model_name)

\* the ten lines an entry is made of, for the invocation inv
IsEntryOf(lines, inv) ==
    /\ Len(lines) = 10
    /\ lines[1].kind = "st" /\ lines[1].n = inv.st
    /\ lines[2].kind = "chars" /\ lines[2].s = "-" /\ lines[2].n = 100
    /\ lines[3].s = "Model Run: " /\ lines[3].v = <<inv.model_name>>
    /\ lines[5].s = "Params: " /\ lines[5].v[1] = get_model(inv.model_name)
    /\ lines[7].s = "Features: "
    /\ Len(lines[7].v) = 2 * Len(inv.columns) - 1
    /\ \A i \in 1..Len(inv.columns) : lines[7].v[2 * i - 1] = inv.columns[i]
    /\ \A i \in 1..(Len(inv.columns) - 1) : lines[7].v[2 * i] = ", "
    /\ lines[9].s = "Scores: " /\ lines[9].v = <<inv.scores>>
    /\ \A k \in {4, 6, 8, 10} : lines[k] = EmptyLine

\* log is the entries of the invocations invs, one after the other
IsLogOf(log, invs) ==
    /\ Len(log) = 10 * Len(invs)
    /\ \A i \in 1..Len(invs) :
           IsEntryOf(SubSeq(log, 10 * (i - 1) + 1, 10 * i), invs[i])

\* C11: log_results only appends: after any sequence of successful runs of
\* run_model.py under one model name, that name's log holds one entry per
\* run, in the order of the runs, each entry being the timestamp line, a
\* line of exactly 100 dashes, the model name, the parameters, the feature
\* column names and the scores of its run; so every earlier entry stays,
\* unchanged, in front of the later ones.
C11_LogAppendOnly ==
    cls = "Runner"
    => \A name \in ModelArgs :
           (\A i \in 1..Len(invocations) :
                invocations[i].model_name = name => invocations[i].ok)
           => IsLogOf(log_files[name], RunsOf(invocations, name))

C11_Witness ==
    /\ cls = "Runner" /\ Len(invocations) = 2
    /\ invocations[1].ok /\ invocations[2].ok
    /\ invocations[1].model_name = invocations[2].model_name
    /\ invocations[1].scores # invocations[2].scores
    /\ Len(log_files[run.model_name]) = 20

\* C12: a failed invocation leaves its output untouched: when run_model.py
\* raises at any point, inside log_results included, no log file has
\* changed; when create_inputs.py raises at any point, input_df.pkl has
\* been neither created, truncated nor modified.
C12_FailureLeavesOutput ==
    [][ /\ (cls = "Runner" /\ Len(invocations') = Len(invocations) + 1
               /\ run'.status = "raised")
           => log_files' = log_files
        /\ (cls = "Builder" /\ build'.status = "raised")
           => input_df_pkl' = input_df_pkl ]_vars

\* C13: get_model fails with InvalidInput for a model name outside the
\* four it knows and returns nothing, so grid_search goes on with neither
\* a missing model nor a missing grid: a run under such a name that gets
\* as far as grid_search ends there with InvalidInput, no model and no
\* grid having been obtained.
C13_UnknownNameRejected ==
    ( /\ cls = "Runner" /\ run.status # "none"
      /\ run.model_name \notin ModelNames
      /\ run.at \notin {"pickle.load", "tt_split_all_less60"} )
    => /\ run.status = "raised" /\ run.at = "grid_search"
       /\ run.error = "InvalidInput"
       /\ run.model = "" /\ run.grid = <<>>

\* C14: StratifiedTimeFold (B) never returns a fold whose test array is
\* empty, the first and the last fold included.
C14_StratBTestNonEmpty ==
    IsFold("StratB") => result.test # <<>>

\* C15: _check_resample returns train_indices unchanged whenever the share
\* of fire rows in a non-empty training set is at or above
\* resample_train_fire_pct (equality included), and resamples only when it
\* is strictly below.
C15_CheckResampleAtThreshold ==
    ( /\ cls = "Resample" /\ result.op = "_check_resample"
      /\ train_arg # <<>>
      /\ 100 * CountFire(fire_bool, train_arg)
             >= resample_train_fire_pct * Len(train_arg) )
    => /\ ~result.resampled
       /\ result.kind = "ok"
       /\ result.train = train_arg

C17_NoSameDaySplit ==
    (cls = "SeqB" /\ init_split_point = SetInitSplitPoint(dates, step_size))
    => /\ TimeOf(init_split_point) = 0
       /\ IsFold("SeqB")
          => \A i \in Range(result.train), j \in Range(result.test) :
                 DayOf(dates[i]) # DayOf(dates[j])

\* the rows the claimed window of C18 selects: for every year y of
\* years_list, those dated in [b_y - days_back, b_y), b_y being the boundary
\* with its year replaced by y
C18_WindowRows(ds, td, db) ==
    {i \in 1..Len(ds) :
        \E y \in Range(YearsList(ds)) :
            /\ ValidDate(y, MonthOf(td), DayOfMonth(td))
            /\ ds[i] >= Tick(y, MonthOf(td), DayOfMonth(td), 0) - db * Day
            /\ ds[i] < Tick(y, MonthOf(td), DayOfMonth(td), 0)}

\* C18: the per-year training window of StratifiedTimeFold (A) is the rows
\* dated in [boundary_y - days_back, boundary_y) with the same end
\* day-of-year in every year, and it is computed without a date error for
\* every boundary: a call never ends in the ValueError of an invalid date,
\* and a fold found in the first round trains on exactly those rows (or,
\* when their fire rate is below the cutoff, on all earlier rows).
C18_TrainWindow ==
    (cls = "StratA" /\ result.op = "next")
    => /\ ~(result.kind = "ValueError" /\ ~result.resampled)
       /\ (result.kind = "fold" /\ result.rounds = 1)
          => Range(result.raw_train)
               = Range(StratA_Kept(dates, fire_bool, cutoff_train_fire_pct,
                          result.boundary,
                          SortedSeq(C18_WindowRows(dates, result.boundary,
                                                   days_back))))

\* C19: the test slice of a fold of StratifiedTimeFold (A) is the one
\* SequentialTimeFold (A) computes: the rows dated in
\* [test_date, test_date + 1 day), whatever step_size is.
C19_StratATestAsSeq ==
    IsFold("StratA") => result.test = SeqA_TestIndices(dates, result.boundary)

C21_SeqBPartition ==
    [][ (cls = "SeqB" /\ result'.op = "next" /\ result'.kind = "fold")
        => /\ DupFree(result'.train \o result'.test)
           /\ Range(result'.train \o result'.test) = 1..Len(dates)
           /\ IsFold("SeqB")
              => /\ Range(result.train) \subseteq Range(result'.train)
                 /\ Range(result'.test) \subseteq Range(result.test) ]_vars

C21_Witness ==
    /\ IsFold("SeqB") /\ returned = 2
    /\ Len(dates) = 2
    /\ result.train = <<1>> /\ result.test = <<2>>

====
